---- MODULE Spec2Model ----
(***************************************************************************)
(* Heart-attack prediction pipeline: the feature-list loader, the row      *)
(* preprocessor and the scoring handler of src/lambda/lambda_function.py,  *)
(* and the training-time preprocessor of src/sagemaker/preprocess.py.      *)
(*                                                                         *)
(* Text is modelled as a sequence of tokens.  A token is a whitespace      *)
(* character (" ", "\n"), a separator ("/", "_"), or a maximal run of      *)
(* other characters ("Sex", "130", ".csv").  Splitting, stripping and      *)
(* suffix tests work on the tokens; lower-casing and number parsing are    *)
(* tables over the word tokens of the bounded vocabulary.                  *)
(*                                                                         *)
(* Scores are integers in units of 1/10000 (0.45 is 4500).                 *)
(***************************************************************************)
EXTENDS Integers, Sequences, FiniteSets, TLC

VARIABLES
    pc,                 \* position of lambda_handler
    bucket,             \* the object listing under PROCESSED_PREFIX
    endpoint,           \* what the hosted endpoint answers, by row position
    rows,               \* rows read from the combined table
    expected_features,  \* result of load_feature_list()
    i,                  \* number of loop iterations completed
    results,            \* all raw scores
    alerts,             \* alert counter
    alert_details,      \* one entry per alert
    predictions,        \* one entry per scored row
    events,             \* calls made to the external services, in order
    response,           \* value returned by lambda_handler
    call,               \* a call of one of the pure functions
    ret                 \* what that call returned

vars == <<pc, bucket, endpoint, rows, expected_features, i, results, alerts,
          alert_details, predictions, events, response, call, ret>>

handlerVars == <<pc, bucket, endpoint, rows, expected_features, i, results,
                 alerts, alert_details, predictions, events, response>>

-----------------------------------------------------------------------------
(* Bounds of the model *)

\* rows of the combined table beyond MAX_ROWS_TO_PROCESS
MaxExtraRows == 1
\* rows of a small combined table
MaxSmallTable == 2
\* period of the endpoint's answers along the table
MaxPeriod == 2
\* lines of a feature-list resource
MaxLines == 3
\* columns of a Feature Schema drawn for preprocess_row
MaxSchema == 2
\* rows of a historical table
MaxTableRows == 3

(* Program constants *)

\* 0.45, in units of 1/10000
ALERT_THRESHOLD == 4500
MAX_ROWS_TO_PROCESS == 50

-----------------------------------------------------------------------------
(* Text *)

Whitespace == {" ", "\n"}

Min(a, b) == IF a <= b THEN a ELSE b

\* number of leading whitespace tokens of s
RECURSIVE LeadingWs(_)
LeadingWs(s) ==
    IF s = <<>> \/ Head(s) \notin Whitespace THEN 0 ELSE 1 + LeadingWs(Tail(s))

Reverse(s) == [k \in 1..Len(s) |-> s[Len(s) + 1 - k]]

\* str.strip()
Strip(s) ==
    LET a == LeadingWs(s)
        b == LeadingWs(Reverse(s))
    IN  IF a = Len(s) THEN <<>> ELSE SubSeq(s, a + 1, Len(s) - b)

\* str.endswith(suffix)
EndsWith(s, suffix) ==
    /\ Len(s) >= Len(suffix)
    /\ SubSeq(s, Len(s) - Len(suffix) + 1, Len(s)) = suffix

\* position of the first token of s equal to sep, 0 when there is none
RECURSIVE IndexOf(_, _)
IndexOf(s, sep) ==
    IF s = <<>> THEN 0
    ELSE IF Head(s) = sep THEN 1
    ELSE LET r == IndexOf(Tail(s), sep) IN IF r = 0 THEN 0 ELSE r + 1

\* str.split(sep, 1): one part without sep, two parts cut at the first sep
SplitOnce(s, sep) ==
    LET p == IndexOf(s, sep)
    IN  IF p = 0 THEN <<s>>
        ELSE <<SubSeq(s, 1, p - 1), SubSeq(s, p + 1, Len(s))>>

\* str.lower() of one token
LowerToken(t) ==
    CASE t = "Male" -> "male"
      [] t = "MALE" -> "male"
      [] t = "Female" -> "female"
      [] t = "Healthy" -> "healthy"
      [] t = "Unhealthy" -> "unhealthy"
      [] t = "Average" -> "average"
      [] OTHER -> t

Lower(s) == [k \in 1..Len(s) |-> LowerToken(s[k])]

\* the numerals of the vocabulary
Numerals == {"0", "1", "50", "85", "130"}

NumeralValue(t) ==
    CASE t = "0" -> 0
      [] t = "1" -> 1
      [] t = "50" -> 50
      [] t = "85" -> 85
      [] t = "130" -> 130

\* Python's order on the category words (upper case sorts before lower case)
WordOrder == <<"Average", "Female", "Healthy", "MALE", "Male", "Unhealthy",
               "female", "healthy", "male", "unhealthy">>

-----------------------------------------------------------------------------
(* Cells of a dataframe: a string, a number, or NaN *)

Str(s) == [kind |-> "str", str |-> s, num |-> 0]
Num(n) == [kind |-> "num", str |-> <<>>, num |-> n]
NaN == [kind |-> "nan", str |-> <<>>, num |-> 0]

\* Series.astype(str) of one cell
AsStr(c) ==
    CASE c.kind = "str" -> c.str
      [] c.kind = "num" -> <<CHOOSE t \in Numerals : NumeralValue(t) = c.num>>
      [] c.kind = "nan" -> <<"nan">>

\* pd.to_numeric(errors="coerce") of one cell
ToNumeric(c) ==
    IF c.kind = "str"
    THEN IF Len(c.str) = 1 /\ c.str[1] \in Numerals
         THEN Num(NumeralValue(c.str[1]))
         ELSE NaN
    ELSE c

\* fillna(0) of one cell
FillNa(c) == IF c.kind = "nan" THEN Num(0) ELSE c

(* Column names *)
ColBloodPressure == <<"Blood", " ", "Pressure">>
ColBPSystolic == <<"BP", "_", "Systolic">>
ColBPDiastolic == <<"BP", "_", "Diastolic">>
ColPatientID == <<"Patient", " ", "ID">>
ColCountry == <<"Country">>
ColContinent == <<"Continent">>
ColHemisphere == <<"Hemisphere">>
ColSex == <<"Sex">>
ColDiet == <<"Diet">>
ColSexMale == <<"Sex", "_", "Male">>
ColDietHealthy == <<"Diet", "_", "Healthy">>
ColDietUnhealthy == <<"Diet", "_", "Unhealthy">>
ColAge == <<"Age">>
ColTarget == <<"Heart", " ", "Attack", " ", "Risk">>

IdentifierColumns == {ColPatientID, ColCountry, ColContinent, ColHemisphere}

\* a one-row dataframe is a function from its column names to cells
Without(df, cols) == [c \in (DOMAIN df) \ cols |-> df[c]]
With(df, col, cell) ==
    [c \in (DOMAIN df) \cup {col} |-> IF c = col THEN cell ELSE df[c]]

\* a raised KeyError, and a normal return
KeyError == [ok |-> FALSE, value |-> <<>>]
Ok(v) == [ok |-> TRUE, value |-> v]

-----------------------------------------------------------------------------
(* load_feature_list *)

\* str.splitlines()
RECURSIVE SplitLines(_)
SplitLines(s) ==
    IF s = <<>> THEN <<>>
    ELSE LET p == IndexOf(s, "\n")
         IN  IF p = 0 THEN <<s>>
             ELSE <<SubSeq(s, 1, p - 1)>> \o SplitLines(SubSeq(s, p + 1, Len(s)))

\* [f.strip() for f in features if f.strip()]
RECURSIVE StripNonBlank(_)
StripNonBlank(lines) ==
    IF lines = <<>> THEN <<>>
    ELSE LET f == Strip(Head(lines))
         IN  (IF f # <<>> THEN <<f>> ELSE <<>>) \o StripNonBlank(Tail(lines))

\* list.remove(x): removes the first occurrence of x
RemoveFirst(s, x) ==
    LET p == IndexOf(s, x)
    IN  SubSeq(s, 1, p - 1) \o SubSeq(s, p + 1, Len(s))

\* if "Heart Attack Risk" in features: features.remove("Heart Attack Risk")
RemoveTarget(features) ==
    IF \E k \in 1..Len(features) : features[k] = ColTarget
    THEN RemoveFirst(features, ColTarget)
    ELSE features

load_feature_list(body) == RemoveTarget(StripNonBlank(SplitLines(body)))

-----------------------------------------------------------------------------
(* preprocess_row *)

\* lines 70-75: split Blood Pressure; bp[1] does not exist when the one row
\* has no "/"
SplitBloodPressure(df) ==
    IF ColBloodPressure \in DOMAIN df
    THEN LET bp == SplitOnce(AsStr(df[ColBloodPressure]), "/")
         IN  IF Len(bp) < 2 THEN KeyError
             ELSE Ok(Without(
                     With(With(df, ColBPSystolic, ToNumeric(Str(bp[1]))),
                          ColBPDiastolic, ToNumeric(Str(bp[2]))),
                     {ColBloodPressure}))
    ELSE Ok(df)

\* (series.astype(str).str.lower() == word).astype(int)
Indicator(cell, word) == Num(IF Lower(AsStr(cell)) = <<word>> THEN 1 ELSE 0)

\* lines 80-86: df["Sex"] and df["Diet"] are read unconditionally
EncodeCategoricals(df) ==
    IF ColSex \notin DOMAIN df \/ ColDiet \notin DOMAIN df THEN KeyError
    ELSE Ok(Without(
            With(With(With(df, ColSexMale, Indicator(df[ColSex], "male")),
                      ColDietHealthy, Indicator(df[ColDiet], "healthy")),
                 ColDietUnhealthy, Indicator(df[ColDiet], "unhealthy")),
            {ColSex, ColDiet}))

\* line 89: df.apply(pd.to_numeric, errors="coerce").fillna(0)
CoerceNumeric(df) == [c \in DOMAIN df |-> FillNa(ToNumeric(df[c]))]

\* lines 68-89: everything before the alignment
EncodeRow(df_row) ==
    LET a == SplitBloodPressure(df_row)
    IN  IF ~a.ok THEN KeyError
        ELSE LET b == EncodeCategoricals(Without(a.value, IdentifierColumns))
             IN  IF ~b.ok THEN KeyError ELSE Ok(CoerceNumeric(b.value))

\* lines 91-96: add the missing columns as 0, keep expected_features in order
Align(df, features) ==
    [k \in 1..Len(features) |->
        [name |-> features[k],
         cell |-> IF features[k] \in DOMAIN df THEN df[features[k]] ELSE Num(0)]]

preprocess_row(df_row, features) ==
    LET e == EncodeRow(df_row)
    IN  IF ~e.ok THEN KeyError ELSE Ok(Align(e.value, features))

-----------------------------------------------------------------------------
(* preprocess_health_data: a table is a non-empty sequence of rows with the
   same columns *)

Columns(df) == DOMAIN df[1]

MaxOf(S) == CHOOSE m \in S : \A n \in S : n <= m

\* lines 28-32: expand=True makes as many columns as the longest split of the
\* table; a row with fewer parts holds None there
SplitBloodPressureTable(df) ==
    IF ColBloodPressure \in Columns(df)
    THEN LET bp == [r \in 1..Len(df) |->
                       SplitOnce(AsStr(df[r][ColBloodPressure]), "/")]
             width == MaxOf({Len(bp[r]) : r \in 1..Len(df)})
         IN  IF width < 2 THEN KeyError
             ELSE Ok([r \in 1..Len(df) |->
                     Without(
                       With(With(df[r], ColBPSystolic, ToNumeric(Str(bp[r][1]))),
                            ColBPDiastolic,
                            IF Len(bp[r]) = 2 THEN ToNumeric(Str(bp[r][2]))
                            ELSE NaN),
                       {ColBloodPressure})])
    ELSE Ok(df)

\* the columns get_dummies encodes: those of dtype object
ObjectColumns(df) ==
    {c \in Columns(df) : \E r \in 1..Len(df) : df[r][c].kind = "str"}

\* the category values of a column
Categories(df, c) ==
    {df[r][c].str : r \in {q \in 1..Len(df) : df[q][c].kind = "str"}}

Rank(v) == CHOOSE k \in 1..Len(WordOrder) : WordOrder[k] = v[1]

\* drop_first=True: every category but the first in sorted order
KeptCategories(df, c) ==
    LET cats == Categories(df, c)
        first == CHOOSE v \in cats : \A w \in cats : Rank(v) <= Rank(w)
    IN  cats \ {first}

DummyName(c, v) == c \o <<"_">> \o v

\* line 38: pd.get_dummies(df, drop_first=True)
GetDummies(df) ==
    LET obj == ObjectColumns(df)
        dums == {<<c, v>> : c \in obj, v \in UNION {KeptCategories(df, d) : d \in obj}}
        kept == {d \in dums : d[2] \in KeptCategories(df, d[1])}
        names == (Columns(df) \ obj) \cup {DummyName(d[1], d[2]) : d \in kept}
    IN  [r \in 1..Len(df) |->
           [n \in names |->
              IF n \in Columns(df) \ obj THEN df[r][n]
              ELSE LET d == CHOOSE e \in kept : DummyName(e[1], e[2]) = n
                   IN  Num(IF df[r][d[1]] = Str(d[2]) THEN 1 ELSE 0)]]

preprocess_health_data(df) ==
    LET a == SplitBloodPressureTable(df)
    IN  IF ~a.ok THEN KeyError
        ELSE LET b == GetDummies([r \in 1..Len(df) |->
                                    Without(a.value[r], IdentifierColumns)])
             IN  Ok([r \in 1..Len(df) |-> [c \in DOMAIN b[r] |-> FillNa(b[r][c])]])

-----------------------------------------------------------------------------
(* The services lambda_handler talks to *)

KeySuccess == <<"processed/", "_SUCCESS">>
KeyCrc == <<"processed/", "part-0", ".csv", ".crc">>
KeyBare == <<"processed/", "csv">>
KeyPartA == <<"processed/", "part-0", ".csv">>
KeyPartB == <<"processed/", "part-1", ".csv">>

\* what list_objects_v2 may return under PROCESSED_PREFIX
Listings ==
    {<<>>, <<KeySuccess>>, <<KeyCrc, KeyBare>>, <<KeySuccess, KeyPartA>>,
     <<KeyPartB, KeyCrc, KeyPartA>>}

\* the feature list written at training time
FeatureListBody ==
    ColTarget \o <<"\n">> \o ColAge \o <<"\n">> \o ColBPSystolic \o <<"\n">>
    \o ColBPDiastolic \o <<" ", "\n", "\n">> \o ColSexMale \o <<"\n">>
    \o ColDietHealthy \o <<"\n">> \o ColDietUnhealthy \o <<"\n">>

\* row k of the combined table, as csv.DictReader returns it: every value is
\* text; the table under KeyPartB has no "Patient ID" column
TableRow(key, k) ==
    LET base ==
          [c \in {ColAge, ColSex, ColDiet, ColBloodPressure} |->
             CASE c = ColAge -> Str(<<"50">>)
               [] c = ColSex -> Str(IF k % 2 = 1 THEN <<"Male">> ELSE <<"female">>)
               [] c = ColDiet -> Str(IF k % 3 = 0 THEN <<"Healthy">> ELSE <<"Average">>)
               [] c = ColBloodPressure -> Str(<<"130", "/", "85">>)]
    IN  IF key = KeyPartB THEN base
        ELSE With(base, ColPatientID, Str(<<"P" \o ToString(k)>>))

\* lines 140-143: the rows of the object under key, n data rows for a table
ReadCsv(key, n) ==
    IF EndsWith(key, <<".csv">>) THEN [k \in 1..n |-> TableRow(key, k)] ELSE <<>>

\* response bodies of the scoring endpoint: one score as text, or nothing
Bodies ==
    {<<"\n">>, <<"0.3", "\n">>, <<"0.45", "\n">>, <<"0.4504">>, <<"0.5", "\n">>}

\* sizes of the combined table: small ones, and those around the row cap
TableSizes ==
    (0..MaxSmallTable)
    \cup ((MAX_ROWS_TO_PROCESS - 1)..(MAX_ROWS_TO_PROCESS + MaxExtraRows))

\* the row whose invocation raises (0: none does)
FailRows == {0, 1, MaxSmallTable, MAX_ROWS_TO_PROCESS, MAX_ROWS_TO_PROCESS + 1}

\* the endpoint: the bodies it returns, repeating along the table, and the
\* row at which the call raises
Endpoints == [bodies : [1..MaxPeriod -> Bodies], failAt : FailRows]

\* float(raw_result), in units of 1/10000
Float(raw) ==
    CASE raw = <<"0.3">> -> 3000
      [] raw = <<"0.45">> -> 4500
      [] raw = <<"0.4504">> -> 4504
      [] raw = <<"0.5">> -> 5000

\* round(score, ndigits) on units of 1/10000; no score of Bodies is a tie
Round(score, ndigits) ==
    IF ndigits >= 4 THEN score
    ELSE LET unit == IF ndigits = 3 THEN 10 ELSE IF ndigits = 2 THEN 100
                     ELSE IF ndigits = 1 THEN 1000 ELSE 10000
         IN  ((score + unit \div 2) \div unit) * unit

\* the answer of the endpoint to the invocation for row k
AnswerFor(k) ==
    [fails |-> k = endpoint.failAt,
     body |-> endpoint.bodies[((k - 1) % Len(endpoint.bodies)) + 1]]

-----------------------------------------------------------------------------
(* lambda_handler *)

\* variant: every listed key is taken for a table
CsvFilesUnfiltered(keys) == keys

\* line 128: the keys of the listing that end in ".csv"
CsvFiles(keys) == SelectSeq(keys, LAMBDA key : EndsWith(key, <<".csv">>))

\* variant: the loop runs over the whole table
RowsToProcessUncapped(rs) == rs

\* line 151: rows[:MAX_ROWS_TO_PROCESS]
RowsToProcess(rs) == SubSeq(rs, 1, Min(Len(rs), MAX_ROWS_TO_PROCESS))

\* line 152: row.get("Patient ID", f"Row{i+1}")
PatientId(row, k) ==
    IF ColPatientID \in DOMAIN row THEN row[ColPatientID].str
    ELSE <<"Row" \o ToString(k)>>

\* line 177
RiskStatus(score) == IF score > ALERT_THRESHOLD THEN "HIGH_RISK" ELSE "LOW_RISK"

\* variant: a score equal to the threshold alerts
IsAlertAtThreshold(score) == score >= ALERT_THRESHOLD

\* line 182
IsAlert(score) == score > ALERT_THRESHOLD

\* line 207
ShouldNotify(n) == n > 0

\* variant: the failure is caught and the loop abandoned
OnInvokeErrorCaught == "save"

\* lines 161-165: invoke_endpoint raises and nothing catches it
OnInvokeError == "crashed"

\* variant: the failure of sns.publish propagates
OnPublishErrorRaised == "crashed"

\* lines 216-217: the except clause around sns.publish
OnPublishError == "return"

NoResponse == [statusCode |-> 0, body |-> <<>>]

Event(op, row, data, ok) == [op |-> op, row |-> row, data |-> data, ok |-> ok]

\* lines 120-148
Start ==
    /\ pc = "start"
    /\ expected_features' = load_feature_list(FeatureListBody)
    /\ LET csv_files == CsvFiles(bucket.keys)
       IN  IF csv_files = <<>>
           THEN /\ response' = [statusCode |-> 404, body |-> <<"No CSV file found.">>]
                /\ pc' = "done"
                /\ rows' = rows
           ELSE /\ rows' = ReadCsv(csv_files[1], bucket.nrows)
                /\ pc' = IF RowsToProcess(rows') = <<>> THEN "save" ELSE "loop"
                /\ response' = response
    /\ UNCHANGED <<bucket, endpoint, i, results, alerts, alert_details,
                   predictions, events, call, ret>>

\* lines 151-189: one iteration of the loop
ProcessRow ==
    /\ pc = "loop"
    /\ LET k == i + 1
           row == RowsToProcess(rows)[k]
           patient_id == PatientId(row, k)
           df_row == preprocess_row(row, expected_features)
           answer == AnswerFor(k)
           raw_result == Strip(answer.body)
           score == Float(raw_result)
           next == IF k = Len(RowsToProcess(rows)) THEN "save" ELSE "loop"
       IN  IF ~df_row.ok
           THEN /\ pc' = "crashed"
                /\ UNCHANGED <<i, results, alerts, alert_details, predictions, events>>
           ELSE /\ events' = Append(events, Event("invoke_endpoint", k, <<>>, ~answer.fails))
                /\ IF answer.fails
                   THEN /\ pc' = OnInvokeError
                        /\ UNCHANGED <<i, results, alerts, alert_details, predictions>>
                   ELSE /\ pc' = next
                        /\ i' = k
                        /\ IF raw_result # <<>>
                           THEN /\ results' = Append(results, score)
                                /\ predictions' = Append(predictions,
                                       [patient_id |-> patient_id,
                                        risk |-> Round(score, 6),
                                        Risk_Status |-> RiskStatus(score)])
                                /\ IF IsAlert(score)
                                   THEN /\ alerts' = alerts + 1
                                        /\ alert_details' = Append(alert_details,
                                               [patient_id |-> patient_id,
                                                risk_score |-> Round(score, 3),
                                                status |-> "HIGH_RISK"])
                                   ELSE UNCHANGED <<alerts, alert_details>>
                           ELSE UNCHANGED <<results, predictions, alerts, alert_details>>
    /\ UNCHANGED <<bucket, endpoint, rows, expected_features, response, call, ret>>

\* lines 191-204
SavePredictions ==
    /\ pc = "save"
    /\ events' = IF predictions # <<>>
                 THEN Append(events, Event("put_object", 0, predictions, TRUE))
                 ELSE events
    /\ pc' = "notify"
    /\ UNCHANGED <<bucket, endpoint, rows, expected_features, i, results, alerts,
                   alert_details, predictions, response, call, ret>>

\* lines 206-217: the message lists patient_id and risk_score of every alert;
\* sns.publish may raise
Notify ==
    /\ pc = "notify"
    /\ IF ShouldNotify(alerts)
       THEN \E ok \in BOOLEAN :
               /\ events' = Append(events,
                     Event("publish", alerts,
                           [k \in 1..Len(alert_details) |->
                              [patient_id |-> alert_details[k].patient_id,
                               risk_score |-> alert_details[k].risk_score]],
                           ok))
               /\ pc' = IF ok THEN "return" ELSE OnPublishError
       ELSE /\ events' = events
            /\ pc' = "return"
    /\ UNCHANGED <<bucket, endpoint, rows, expected_features, i, results, alerts,
                   alert_details, predictions, response, call, ret>>

\* lines 219-229
Return ==
    /\ pc = "return"
    /\ response' = [statusCode |-> 200,
                    body |-> [processed_rows |-> Len(rows),
                              alerts_triggered |-> alerts,
                              alert_details |-> alert_details,
                              all_scores |-> results]]
    /\ pc' = "done"
    /\ UNCHANGED <<bucket, endpoint, rows, expected_features, i, results, alerts,
                   alert_details, predictions, events, call, ret>>

NoCall == [fn |-> "none", table |-> <<>>, row |-> <<>>, features |-> <<>>, body |-> <<>>]
NoReturn == [done |-> FALSE, ok |-> FALSE, value |-> <<>>]

\* a run of lambda_handler: the listing, the size of the table and the
\* endpoint's answers are the environment's
InitHandler ==
    /\ pc = "start"
    /\ bucket \in [keys : Listings, nrows : TableSizes]
    /\ endpoint \in Endpoints
    /\ rows = <<>>
    /\ expected_features = <<>>
    /\ i = 0
    /\ results = <<>>
    /\ alerts = 0
    /\ alert_details = <<>>
    /\ predictions = <<>>
    /\ events = <<>>
    /\ response = NoResponse
    /\ call = NoCall
    /\ ret = NoReturn

NextHandler == Start \/ ProcessRow \/ SavePredictions \/ Notify \/ Return

SpecHandler == InitHandler /\ [][NextHandler]_vars

-----------------------------------------------------------------------------
(* Calls of the pure functions on inputs drawn from bounded sets *)

IdleHandler ==
    /\ pc = "idle"
    /\ bucket = [keys |-> <<>>, nrows |-> 0]
    /\ endpoint = [bodies |-> <<>>, failAt |-> 0]
    /\ rows = <<>>
    /\ expected_features = <<>>
    /\ i = 0
    /\ results = <<>>
    /\ alerts = 0
    /\ alert_details = <<>>
    /\ predictions = <<>>
    /\ events = <<>>
    /\ response = NoResponse

Returned(r) == [done |-> TRUE, ok |-> r.ok, value |-> r.value]

\* a column the record does not have
Absent == [kind |-> "absent", str |-> <<>>, num |-> 0]

RawColumns == {ColBloodPressure, ColSex, ColDiet, ColAge, ColPatientID}

\* the record with the given cells, without the absent ones
MakeRecord(bp, sex, diet, age, pid) ==
    LET all == [c \in RawColumns |->
                  CASE c = ColBloodPressure -> bp
                    [] c = ColSex -> sex
                    [] c = ColDiet -> diet
                    [] c = ColAge -> age
                    [] c = ColPatientID -> pid]
    IN  [c \in {d \in RawColumns : all[d] # Absent} |-> all[c]]

BPTexts ==
    {<<"130", "/", "85">>, <<"abc", "/", "85">>, <<"130", "/">>, <<"130">>,
     <<"130", "/", "85", "/", "1">>}

\* Raw Records, every value text as csv.DictReader gives it
RawRecords ==
    {MakeRecord(bp, sex, diet, age, pid) :
        bp \in {Absent} \cup {Str(t) : t \in BPTexts},
        sex \in {Absent, Str(<<"Male">>), Str(<<"MALE">>), Str(<<"female">>)},
        diet \in {Absent, Str(<<"Healthy">>), Str(<<"unhealthy">>), Str(<<"Average">>)},
        age \in {Absent, Str(<<"50">>), Str(<<"abc">>)},
        pid \in {Absent, Str(<<"P1">>)}}

SchemaNames ==
    {ColBPSystolic, ColBPDiastolic, ColSexMale, ColDietHealthy, ColAge,
     ColBloodPressure, ColSex}

\* Feature Schemas: the sequences of at most MaxSchema names
Schemas == UNION {[1..n -> SchemaNames] : n \in 0..MaxSchema}

InitPreprocess ==
    /\ IdleHandler
    /\ call \in [fn : {"preprocess_row"}, table : {<<>>}, row : RawRecords,
                  features : Schemas, body : {<<>>}]
    /\ ret = NoReturn

CallPreprocessRow ==
    /\ call.fn = "preprocess_row"
    /\ ~ret.done
    /\ ret' = Returned(preprocess_row(call.row, call.features))
    /\ UNCHANGED <<handlerVars, call>>

SpecPreprocess == InitPreprocess /\ [][CallPreprocessRow]_vars

\* lines of a feature-list resource
FeatureLines ==
    {<<>>, <<" ">>, ColAge, <<" ">> \o ColAge \o <<" ">>, <<"BMI">>, ColTarget,
     ColTarget \o <<" ">>}

RECURSIVE JoinLines(_)
JoinLines(lines) ==
    IF lines = <<>> THEN <<>> ELSE Head(lines) \o <<"\n">> \o JoinLines(Tail(lines))

\* feature-list resources: at most MaxLines lines, each ended by a newline
FeatureBodies ==
    {JoinLines(ls) : ls \in UNION {[1..n -> FeatureLines] : n \in 0..MaxLines}}

InitLoader ==
    /\ IdleHandler
    /\ call \in [fn : {"load_feature_list"}, table : {<<>>}, row : {<<>>},
                  features : {<<>>}, body : FeatureBodies]
    /\ ret = NoReturn

CallLoadFeatureList ==
    /\ call.fn = "load_feature_list"
    /\ ~ret.done
    /\ ret' = Returned(Ok(load_feature_list(call.body)))
    /\ UNCHANGED <<handlerVars, call>>

SpecLoader == InitLoader /\ [][CallLoadFeatureList]_vars

\* rows of a historical table: numeric columns hold numbers, the others text
HistoricalRows ==
    {MakeRecord(bp, sex, diet, Num(50), Str(<<"P1">>)) :
        bp \in {Str(<<"130", "/", "85">>), Str(<<"abc", "/", "85">>)},
        sex \in {Str(<<"Male">>), Str(<<"Female">>), Str(<<"male">>)},
        diet \in {Str(<<"Average">>), Str(<<"Healthy">>), Str(<<"Unhealthy">>)}}

HistoricalTables == UNION {[1..n -> HistoricalRows] : n \in 1..MaxTableRows}

InitTraining ==
    /\ IdleHandler
    /\ call \in [fn : {"preprocess_health_data"}, table : HistoricalTables,
                  row : {<<>>}, features : {<<>>}, body : {<<>>}]
    /\ ret = NoReturn

CallPreprocessHealthData ==
    /\ call.fn = "preprocess_health_data"
    /\ ~ret.done
    /\ ret' = Returned(preprocess_health_data(call.table))
    /\ UNCHANGED <<handlerVars, call>>

SpecTraining == InitTraining /\ [][CallPreprocessHealthData]_vars

-----------------------------------------------------------------------------
(* Claims about preprocess_row, load_feature_list and preprocess_health_data *)

\* the names a record supplies to the Feature Vector, directly or derived
Supplied(R) ==
    ((DOMAIN R) \ (IdentifierColumns \cup {ColBloodPressure, ColSex, ColDiet}))
    \cup (IF ColBloodPressure \in DOMAIN R THEN {ColBPSystolic, ColBPDiastolic} ELSE {})
    \cup (IF ColSex \in DOMAIN R THEN {ColSexMale} ELSE {})
    \cup (IF ColDiet \in DOMAIN R THEN {ColDietHealthy, ColDietUnhealthy} ELSE {})

\* C1: for every Raw Record and Feature Schema, preprocess_row returns without
\* error one row whose columns are exactly the schema, in its order, with
\* every name the record did not supply set to 0.
ClaimC1 ==
    (call.fn = "preprocess_row" /\ ret.done) =>
        /\ ret.ok
        /\ Len(ret.value) = Len(call.features)
        /\ \A k \in 1..Len(call.features) :
              /\ ret.value[k].name = call.features[k]
              /\ call.features[k] \notin Supplied(call.row)
                    => ret.value[k].cell = Num(0)

\* the Blood Pressure text is "<s>/<d>" with s and d numerals
NumericBP(t) == Len(t) = 3 /\ t[1] \in Numerals /\ t[2] = "/" /\ t[3] \in Numerals

InSchema(name, features) == \E k \in 1..Len(features) : features[k] = name

\* C7: a record whose Blood Pressure is "<s>/<d>" with s and d numeric, and a
\* schema with BP_Systolic and BP_Diastolic, yield BP_Systolic = s and
\* BP_Diastolic = d, and no Blood Pressure column in the output.
ClaimC7 ==
    (/\ call.fn = "preprocess_row"
     /\ ret.done
     /\ ColBloodPressure \in DOMAIN call.row
     /\ NumericBP(call.row[ColBloodPressure].str)
     /\ InSchema(ColBPSystolic, call.features)
     /\ InSchema(ColBPDiastolic, call.features)) =>
        /\ ret.ok
        /\ \A k \in 1..Len(ret.value) :
              /\ ret.value[k].name = ColBPSystolic =>
                    ret.value[k].cell = Num(NumeralValue(call.row[ColBloodPressure].str[1]))
              /\ ret.value[k].name = ColBPDiastolic =>
                    ret.value[k].cell = Num(NumeralValue(call.row[ColBloodPressure].str[3]))
              /\ ret.value[k].name # ColBloodPressure

\* the number a part of a Blood Pressure text stands for, 0 when it is not one
PartValue(part) ==
    IF Len(part) = 1 /\ part[1] \in Numerals THEN NumeralValue(part[1]) ELSE 0

\* C8 (on the records that carry Sex and Diet): when the Blood Pressure field
\* has a non-numeric or missing part, preprocess_row does not raise, that
\* part is emitted as 0, the other part keeps its parsed value, and no
\* column of the output holds the original text.
ClaimC8 ==
    (/\ call.fn = "preprocess_row"
     /\ ret.done
     /\ {ColBloodPressure, ColSex, ColDiet} \subseteq DOMAIN call.row
     /\ ~NumericBP(call.row[ColBloodPressure].str)) =>
        LET t == call.row[ColBloodPressure].str
            p == IndexOf(t, "/")
            left == IF p = 0 THEN t ELSE SubSeq(t, 1, p - 1)
            right == IF p = 0 THEN <<>> ELSE SubSeq(t, p + 1, Len(t))
        IN  /\ ret.ok
            /\ \A k \in 1..Len(ret.value) :
                  /\ ret.value[k].cell.kind = "num"
                  /\ ret.value[k].name = ColBPSystolic =>
                        ret.value[k].cell.num = PartValue(left)
                  /\ ret.value[k].name = ColBPDiastolic =>
                        ret.value[k].cell.num = PartValue(right)

\* s without its entries equal to x
RECURSIVE Except(_, _)
Except(s, x) ==
    IF s = <<>> THEN <<>>
    ELSE (IF Head(s) = x THEN <<>> ELSE <<Head(s)>>) \o Except(Tail(s), x)

\* C9: load_feature_list returns the stripped non-blank lines in order, with
\* no occurrence of the target label and no duplicate name.
ClaimC9 ==
    (call.fn = "load_feature_list" /\ ret.done) =>
        /\ ret.value = Except(StripNonBlank(SplitLines(call.body)), ColTarget)
        /\ \A j, k \in 1..Len(ret.value) : ret.value[j] = ret.value[k] => j = k

\* C2: on every row of every historical table, preprocess_health_data and
\* preprocess_row (before the alignment to a schema) produce the same
\* feature names and the same values.
ClaimC2 ==
    (call.fn = "preprocess_health_data" /\ ret.done) =>
        /\ ret.ok
        /\ \A r \in 1..Len(call.table) :
              LET online == EncodeRow(call.table[r])
              IN  /\ online.ok
                  /\ DOMAIN online.value = DOMAIN ret.value[r]
                  /\ \A c \in DOMAIN online.value : online.value[c] = ret.value[r][c]

-----------------------------------------------------------------------------
(* Claims about lambda_handler *)

Invocations == SelectSeq(events, LAMBDA e : e.op = "invoke_endpoint")
Positions(op) == {k \in 1..Len(events) : events[k].op = op}
Flagged == {k \in 1..Len(results) : results[k] > ALERT_THRESHOLD}
HighRisk == SelectSeq(predictions, LAMBDA p : p.Risk_Status = "HIGH_RISK")
RowCap == IF bucket.nrows <= MAX_ROWS_TO_PROCESS THEN bucket.nrows ELSE MAX_ROWS_TO_PROCESS

\* C3: a scored row is labelled HIGH_RISK and counted as an alert exactly when
\* its score is strictly above ALERT_THRESHOLD; after a run that returns 200,
\* alerts_triggered is the number of alert_details entries and the number of
\* predictions labelled HIGH_RISK.
InvC3 ==
    /\ Len(predictions) = Len(results)
    /\ \A k \in 1..Len(results) :
          predictions[k].Risk_Status =
             (IF results[k] > ALERT_THRESHOLD THEN "HIGH_RISK" ELSE "LOW_RISK")
    /\ alerts = Cardinality(Flagged)
    /\ Len(alert_details) = alerts
    /\ response.statusCode = 200 =>
          /\ response.body.alerts_triggered = Len(response.body.alert_details)
          /\ response.body.alerts_triggered = Len(HighRisk)

\* a run returned 200 after scoring a row at the threshold and a row above it
WitC3 ==
    /\ response.statusCode = 200
    /\ \E k \in 1..Len(results) :
          results[k] = ALERT_THRESHOLD /\ predictions[k].Risk_Status = "LOW_RISK"
    /\ alerts >= 1

\* C4: with a row above the threshold, one notification is published, after
\* all rows were scored and after the summary write, listing every flagged
\* entity with its score; with none, no notification is published; a failed
\* publish still ends in status 200 with the same summary body.
InvC4 ==
    LET published == Positions("publish")
        high == HighRisk
    IN
    /\ Cardinality(published) <= 1
    /\ \A k \in published :
          /\ k = Len(events)
          /\ pc \in {"return", "done"}
          /\ Len(Invocations) = RowCap
          /\ predictions # <<>> => Positions("put_object") # {}
          /\ events[k].row = Cardinality(Flagged)
          /\ Len(events[k].data) = Len(high)
          /\ \A j \in 1..Len(high) :
                /\ events[k].data[j].patient_id = high[j].patient_id
                /\ events[k].data[j].risk_score = Round(high[j].risk, 3)
    /\ (pc = "return" \/ response.statusCode = 200) =>
          Cardinality(published) = (IF Flagged # {} THEN 1 ELSE 0)
    /\ response.statusCode = 200 =>
          response.body = [processed_rows |-> bucket.nrows,
                           alerts_triggered |-> Cardinality(Flagged),
                           alert_details |-> alert_details,
                           all_scores |-> results]

\* a run returned 200 although publishing its two or more alerts failed
WitC4 ==
    /\ response.statusCode = 200
    /\ alerts >= 2
    /\ \E k \in Positions("publish") : ~events[k].ok

\* C5: when no listed key ends in ".csv", the run returns status 404 without
\* raising, invoking the endpoint, writing a summary or publishing.
InvC5 ==
    (/\ pc # "start"
     /\ \A k \in 1..Len(bucket.keys) :
           bucket.keys[k][Len(bucket.keys[k])] # ".csv") =>
        /\ pc = "done"
        /\ response.statusCode = 404
        /\ events = <<>>

\* a run returned 404 on a listing that holds keys, none of them a table
WitC5 ==
    /\ pc = "done"
    /\ response.statusCode = 404
    /\ Len(bucket.keys) >= 2
    /\ events = <<>>

\* C6: the endpoint is invoked once for each of the first min(n,
\* MAX_ROWS_TO_PROCESS) rows in table order and for no other row; scores and
\* predictions never outnumber that; processed_rows reports n.
InvC6 ==
    LET invoked == Invocations
    IN
    /\ \A j \in 1..Len(invoked) : invoked[j].row = j
    /\ Len(invoked) <= RowCap
    /\ Len(results) <= RowCap
    /\ Len(predictions) <= RowCap
    /\ (pc \in {"save", "notify", "return"} \/ response.statusCode = 200) =>
          Len(invoked) = RowCap
    /\ response.statusCode = 200 => response.body.processed_rows = bucket.nrows

\* a run over a table longer than the cap returned 200, with one score missing
WitC6 ==
    /\ response.statusCode = 200
    /\ bucket.nrows > MAX_ROWS_TO_PROCESS
    /\ Len(Invocations) = MAX_ROWS_TO_PROCESS
    /\ Len(results) < MAX_ROWS_TO_PROCESS
    /\ response.body.processed_rows > MAX_ROWS_TO_PROCESS

\* C10: a failed invocation on row k ends the run: it is the last call made,
\* nothing is written or published, nothing is returned; and in every run no
\* invocation follows the summary write or the publish.
InvC10 ==
    /\ \A k \in 1..Len(events) :
          (events[k].op = "invoke_endpoint" /\ ~events[k].ok) =>
             /\ k = Len(events)
             /\ pc = "crashed"
             /\ response.statusCode = 0
             /\ Positions("put_object") = {}
             /\ Positions("publish") = {}
    /\ \A j \in Positions("put_object") \cup Positions("publish") :
          \A k \in (j + 1)..Len(events) : events[k].op # "invoke_endpoint"

\* the invocation failed on a later row after an earlier row had alerted
WitC10 ==
    /\ pc = "crashed"
    /\ alerts >= 1
    /\ Len(events) >= 2
    /\ ~events[Len(events)].ok

====
